---- MODULE Spec2Model ----
(***************************************************************************)
(* Model of modulo4_horarios.py: the demand estimator, the threshold       *)
(* headway policy, the rounding helper and generate_daily_schedule.        *)
(*                                                                         *)
(* Representation.                                                         *)
(*  - A datetime is an integer number of seconds counted from 00:00:00 of  *)
(*    service_day (negative before it).  A time-of-day is a number of      *)
(*    seconds in 0..86399.  Microseconds are not represented: _round_dt    *)
(*    treats them exactly as it treats seconds.                            *)
(*  - Optional[x] is a sequence: <<>> is None and <<v>> is the value v.    *)
(*  - A demand score or a threshold is an integer number of hundredths     *)
(*    (0.85 is 85); the source only compares and clamps them.              *)
(***************************************************************************)
EXTENDS Integers, Sequences, FiniteSets, TLC

VARIABLES routes, service_window, fixed_headway_min, round_to_minutes,
          demand_provider, headway_policy,
          dp, hp, schedules, pc, i, current, demand, headway_min,
          dp_calls, hp_calls, at

vars == <<routes, service_window, fixed_headway_min, round_to_minutes,
          demand_provider, headway_policy,
          dp, hp, schedules, pc, i, current, demand, headway_min,
          dp_calls, hp_calls, at>>

inputs == <<routes, service_window, fixed_headway_min, round_to_minutes,
            demand_provider, headway_policy>>

----
(* Bounds of the model *)

\* the stepping loop is cut after this many departures of one route
MaxDepartures == 80

----
(* Python helpers *)

None == <<>>
Some(v) == <<v>>
IsNone(o) == o = <<>>
Val(o) == o[1]

Min(a, b) == IF a <= b THEN a ELSE b
Max(a, b) == IF a >= b THEN a ELSE b

Day == 24 * 3600
T(h, m, s) == h * 3600 + m * 60 + s

\* datetime.time(), .date(), .hour, .minute, .second
TimeOf(dt) == dt % Day
DateOf(dt) == dt \div Day
HourOf(dt) == TimeOf(dt) \div 3600
MinuteOf(dt) == (TimeOf(dt) \div 60) % 60
SecondOf(dt) == dt % 60

\* datetime.combine(service_day, t)
Combine(t) == t

\* the values of a list
Range(s) == {s[k] : k \in 1..Len(s)}

----
(* SimpleDemandByHour *)

DefaultByHour ==
  [h \in 0..23 |->
     IF h < 5 THEN 25
     ELSE IF h < 7 THEN 60
     ELSE IF h < 9 THEN 90
     ELSE IF h < 12 THEN 50
     ELSE IF h < 14 THEN 70
     ELSE IF h < 17 THEN 55
     ELSE IF h < 20 THEN 95
     ELSE 40]

DefaultBase == 40

SimpleDemandByHour(by_hour, base) ==
  [by_hour |-> IF IsNone(by_hour) THEN DefaultByHour ELSE Val(by_hour),
   base |-> base]

\* a slip in line 33: the min(1.0, ...) left out
get_demand_score_NoUpperClamp(self, dt) ==
  LET v == IF HourOf(dt) \in DOMAIN self.by_hour
           THEN self.by_hour[HourOf(dt)] ELSE self.base
  IN Max(0, v)

get_demand_score(self, dt) ==
  LET v == IF HourOf(dt) \in DOMAIN self.by_hour
           THEN self.by_hour[HourOf(dt)] ELSE self.base
  IN Max(0, Min(100, v))

----
(* ThresholdHeadwayPolicy *)

DefaultThresholds == << <<85, 8>>, <<70, 10>>, <<50, 15>>, <<30, 20>>, <<0, 30>> >>

\* a slip in line 51: the sort left out
SortDesc_Unsorted(l) == l

\* list.sort(key = threshold, reverse = True): stable, descending
RECURSIVE SortDesc(_)
SortDesc(l) ==
  IF Len(l) <= 1 THEN l
  ELSE LET rest == SortDesc(SubSeq(l, 1, Len(l) - 1))
           x == l[Len(l)]
           \* x goes after every element with a threshold >= its own
           n == Cardinality({k \in 1..Len(rest) : rest[k][1] >= x[1]})
       IN SubSeq(rest, 1, n) \o <<x>> \o SubSeq(rest, n + 1, Len(rest))

ThresholdHeadwayPolicy(thresholds, min_headway, max_headway) ==
  [thresholds |-> SortDesc(IF IsNone(thresholds) THEN DefaultThresholds
                           ELSE Val(thresholds)),
   min_headway |-> min_headway,
   max_headway |-> max_headway]

DefaultMinHeadway == 6
DefaultMaxHeadway == 60

\* a slip in the defaults of lines 39-40: the two bounds exchanged
DefaultPolicy_BoundsSwapped ==
  ThresholdHeadwayPolicy(None, DefaultMaxHeadway, DefaultMinHeadway)

DefaultPolicy == ThresholdHeadwayPolicy(None, DefaultMinHeadway, DefaultMaxHeadway)

\* int(max(self.min_headway, min(self.max_headway, hw)))
Clamp(self, hw) == Max(self.min_headway, Min(self.max_headway, hw))

\* [ok |-> TRUE, val |-> h] is a return of h;
\* [ok |-> FALSE, val |-> 0] is the IndexError of thresholds[-1] on an empty list
get_headway_minutes(self, demand_score) ==
  LET tbl == self.thresholds
      hits == {k \in 1..Len(tbl) : demand_score >= tbl[k][1]}
  IN IF hits # {}
     THEN LET k == CHOOSE m \in hits : \A n \in hits : m <= n
          IN [ok |-> TRUE, val |-> Clamp(self, tbl[k][2])]
     ELSE IF Len(tbl) = 0
          THEN [ok |-> FALSE, val |-> 0]
          ELSE [ok |-> TRUE, val |-> Clamp(self, tbl[Len(tbl)][2])]

----
(* _round_dt *)

\* a slip in line 80: // for %
_round_dt_Quotient(dt, g) ==
  IF IsNone(g) \/ Val(g) = 0 \/ Val(g) <= 1
  THEN dt
  ELSE dt - ((MinuteOf(dt) \div Val(g)) * 60 + SecondOf(dt))

_round_dt(dt, g) ==
  IF IsNone(g) \/ Val(g) = 0 \/ Val(g) <= 1
  THEN dt
  ELSE dt - ((MinuteOf(dt) % Val(g)) * 60 + SecondOf(dt))

\* Python truth value of an Optional[int]
Truthy(o) == ~IsNone(o) /\ Val(o) # 0

----
(* Inputs of generate_daily_schedule explored by the model *)

ServiceWindow(start, end) == [start |-> start, end |-> end]

\* ServiceWindow.contains
contains(self, dt) == self.start <= TimeOf(dt) /\ TimeOf(dt) <= self.end

BigWindow == ServiceWindow(T(6, 0, 0), T(22, 0, 0))

SmallWindows ==
  { ServiceWindow(T(7, 0, 0), T(9, 0, 0)),
    ServiceWindow(T(7, 3, 30), T(9, 0, 0)),
    ServiceWindow(T(8, 0, 0), T(8, 0, 0)),
    ServiceWindow(T(9, 0, 0), T(7, 0, 0)) }

FixedHeadways == {None, Some(0), Some(-30), Some(8), Some(30), Some(180)}

RoundTos == {None, Some(0), Some(5), Some(7), Some(15)}

RouteLists == { <<"A">>, <<"A", "B">>, <<"A", "B", "A">> }

\* a custom table with out-of-range values, defined for two hours only
CustomDemand == SimpleDemandByHour(Some([h \in {7, 8} |-> IF h = 7 THEN 150 ELSE -20]), 40)

DemandProviders == {None, Some(CustomDemand)}

HeadwayPolicies ==
  { None,
    Some(ThresholdHeadwayPolicy(Some(<< >>), 6, 60)),
    Some(ThresholdHeadwayPolicy(Some(<< <<0, 0>> >>), 0, 60)),
    Some(ThresholdHeadwayPolicy(Some(<< <<50, 12>>, <<95, 4>> >>), 6, 60)) }

----
(* generate_daily_schedule *)

Init ==
  /\ routes \in RouteLists
  /\ service_window \in SmallWindows \cup {BigWindow}
  /\ fixed_headway_min \in FixedHeadways
  /\ service_window = BigWindow => fixed_headway_min \in {Some(30), Some(180)}
  /\ round_to_minutes \in RoundTos
  /\ demand_provider \in DemandProviders
  /\ headway_policy \in HeadwayPolicies
  /\ dp = None
  /\ hp = None
  /\ schedules = [r \in {} |-> << >>]
  /\ pc = "entry"
  /\ i = 0
  /\ current = 0
  /\ demand = None
  /\ headway_min = None
  /\ dp_calls = 0
  /\ hp_calls = 0
  /\ at = 0

\* a slip in line 94: > for >=, which lets start = end through
CheckWindow_Strict ==
  /\ pc = "entry"
  /\ pc' = IF service_window.start > service_window.end
           THEN "ValueError" ELSE "setup"
  /\ UNCHANGED <<inputs, dp, hp, schedules, i, current, demand, headway_min,
                 dp_calls, hp_calls, at>>

\* lines 94-95: the window check
CheckWindow ==
  /\ pc = "entry"
  /\ pc' = IF service_window.start >= service_window.end
           THEN "ValueError" ELSE "setup"
  /\ UNCHANGED <<inputs, dp, hp, schedules, i, current, demand, headway_min,
                 dp_calls, hp_calls, at>>

\* a slip in line 100: the last entry of the list gets no key
Setup_DropsLast ==
  /\ pc = "setup"
  /\ dp' = IF IsNone(demand_provider)
           THEN Some(SimpleDemandByHour(None, DefaultBase)) ELSE demand_provider
  /\ hp' = IF IsNone(headway_policy) THEN Some(DefaultPolicy) ELSE headway_policy
  /\ schedules' = [r \in Range(SubSeq(routes, 1, Len(routes) - 1)) |-> << >>]
  /\ i' = 1
  /\ pc' = "for"
  /\ UNCHANGED <<inputs, current, demand, headway_min, dp_calls, hp_calls, at>>

\* lines 97-100: the defaults and the empty mapping
Setup ==
  /\ pc = "setup"
  /\ dp' = IF IsNone(demand_provider)
           THEN Some(SimpleDemandByHour(None, DefaultBase)) ELSE demand_provider
  /\ hp' = IF IsNone(headway_policy) THEN Some(DefaultPolicy) ELSE headway_policy
  /\ schedules' = [r \in Range(routes) |-> << >>]
  /\ i' = 1
  /\ pc' = "for"
  /\ UNCHANGED <<inputs, current, demand, headway_min, dp_calls, hp_calls, at>>

\* a slip in lines 103-104: the first candidate is not rounded
NextRoute_Unrounded ==
  /\ pc = "for"
  /\ i <= Len(routes)
  /\ current' = Combine(service_window.start)
  /\ pc' = "while"
  /\ UNCHANGED <<inputs, dp, hp, schedules, i, demand, headway_min,
                 dp_calls, hp_calls, at>>

\* lines 102-104: the next route of the list and its first candidate
NextRoute ==
  /\ pc = "for"
  /\ i <= Len(routes)
  /\ current' = _round_dt(Combine(service_window.start), round_to_minutes)
  /\ pc' = "while"
  /\ UNCHANGED <<inputs, dp, hp, schedules, i, demand, headway_min,
                 dp_calls, hp_calls, at>>

\* a slip in line 106: < for <=, which leaves the window end out
InWindow_Exclusive(dt) == TimeOf(dt) < service_window.end

\* line 106: the condition of the while loop
InWindow(dt) == TimeOf(dt) <= service_window.end

\* line 107: schedules[route].append(current)
Appended == [schedules EXCEPT ![routes[i]] = Append(@, current)]

\* a slip in line 115: timedelta(seconds = ...) for timedelta(minutes = ...)
Advance_Seconds(dt, h) ==
  IF Truthy(round_to_minutes)
  THEN _round_dt(dt + h, round_to_minutes)
  ELSE dt + h

\* lines 115-117: the advance and the rounding of the advanced value
Advance(dt, h) ==
  IF Truthy(round_to_minutes)
  THEN _round_dt(dt + h * 60, round_to_minutes)
  ELSE dt + h * 60

\* a slip in line 109: `if options.fixed_headway_min:` for `is not None`
FixedSet_Truthy == Truthy(fixed_headway_min)

\* line 109: options.fixed_headway_min is not None
FixedSet == ~IsNone(fixed_headway_min)

\* lines 106-117: one iteration of the stepping loop
Step ==
  /\ pc = "while"
  /\ InWindow(current)
  /\ Len(schedules[routes[i]]) < MaxDepartures
  /\ schedules' = Appended
  /\ IF FixedSet
     THEN /\ headway_min' = fixed_headway_min
          /\ current' = Advance(current, Val(fixed_headway_min))
          /\ UNCHANGED <<pc, demand, dp_calls, hp_calls>>
     ELSE LET d == get_demand_score(Val(dp), current)
              r == get_headway_minutes(Val(hp), d)
          IN /\ demand' = Some(d)
             /\ dp_calls' = dp_calls + 1
             /\ hp_calls' = hp_calls + 1
             /\ IF r.ok
                THEN /\ headway_min' = Some(r.val)
                     /\ current' = Advance(current, r.val)
                     /\ pc' = pc
                ELSE /\ pc' = "IndexError"
                     /\ UNCHANGED <<headway_min, current>>
  /\ UNCHANGED <<inputs, dp, hp, i, at>>

\* line 106 false: the loop of this route ends
EndRoute ==
  /\ pc = "while"
  /\ ~InWindow(current)
  /\ i' = i + 1
  /\ pc' = "for"
  /\ UNCHANGED <<inputs, dp, hp, schedules, current, demand, headway_min,
                 dp_calls, hp_calls, at>>

\* line 119: return schedules
Return ==
  /\ pc = "for"
  /\ i > Len(routes)
  /\ pc' = "done"
  /\ UNCHANGED <<inputs, dp, hp, schedules, i, current, demand, headway_min,
                 dp_calls, hp_calls, at>>

Next == CheckWindow \/ Setup \/ NextRoute \/ Step \/ EndRoute \/ Return

Spec == Init /\ [][Next]_vars

\* the interpreter keeps executing the call while it has a statement to run
FairSpec == Spec /\ WF_vars(Next)

\* The cut of the loop at MaxDepartures removes no run that ends: it is
\* reached only on the first pass over a route and with a candidate whose
\* time-of-day was appended before, from where the loop repeats itself.
CutOnlyOnRepeat ==
  (pc = "while" /\ InWindow(current) /\ Len(schedules[routes[i]]) >= MaxDepartures) =>
    /\ \A k \in 1..(i - 1) : routes[k] # routes[i]
    /\ \E k \in 1..Len(schedules[routes[i]]) :
         TimeOf(schedules[routes[i]][k]) = TimeOf(current)

----
(* Properties of generate_daily_schedule *)

Terminated == pc \in {"done", "ValueError", "IndexError"}

RoundingDisabled == IsNone(round_to_minutes) \/ Val(round_to_minutes) \in {0, 1}

\* the interval the loop chooses at a departure dt (lines 109-113)
HeadwayAt(dt) ==
  IF FixedSet
  THEN Val(fixed_headway_min)
  ELSE get_headway_minutes(Val(hp), get_demand_score(Val(dp), dt)).val

\* the loop of lines 106-117 run from dt to its end on its own list
RECURSIVE RunLoop(_, _)
RunLoop(dt, acc) ==
  IF ~InWindow(dt) THEN acc
  ELSE RunLoop(Advance(dt, HeadwayAt(dt)), Append(acc, dt))

\* the sequence generate_daily_schedule returns for a single-entry list
SingleRun == RunLoop(_round_dt(Combine(service_window.start), round_to_minutes), << >>)

\* C1: for every route the sequence built so far is strictly increasing
\* in time-of-day.
C1_StrictlyIncreasing ==
  \A r \in DOMAIN schedules :
    \A k \in 1..(Len(schedules[r]) - 1) :
      TimeOf(schedules[r][k]) < TimeOf(schedules[r][k + 1])

\* C2: every appended timestamp has a time-of-day inside [start, end].
C2_AllInsideWindow ==
  \A r \in DOMAIN schedules :
    \A k \in 1..Len(schedules[r]) : contains(service_window, schedules[r][k])

C4_RejectsBadWindow ==
  service_window.start >= service_window.end =>
    /\ pc \in {"entry", "ValueError"}
    /\ dp_calls = 0
    /\ hp_calls = 0
    /\ \A r \in DOMAIN schedules : schedules[r] = << >>

C4_Witness ==
  /\ pc = "ValueError"
  /\ service_window.start = service_window.end

\* C5: with a fixed headway H and rounding disabled, any two consecutive
\* departures of a route are exactly H minutes apart.
C5_FixedHeadwayExact ==
  (~IsNone(fixed_headway_min) /\ RoundingDisabled) =>
    \A r \in DOMAIN schedules :
      \A k \in 1..(Len(schedules[r]) - 1) :
        schedules[r][k + 1] - schedules[r][k] = Val(fixed_headway_min) * 60

\* C8: the sequence returned for a route is the one a call with that
\* route alone returns.
C8_RouteIndependent ==
  pc = "done" => \A r \in Range(routes) : schedules[r] = SingleRun

\* Scenario B of the specification, with a single route
ScenarioB ==
  /\ routes = <<"A">>
  /\ service_window = ServiceWindow(T(7, 0, 0), T(9, 0, 0))
  /\ IsNone(fixed_headway_min)
  /\ RoundingDisabled
  /\ IsNone(demand_provider)
  /\ IsNone(headway_policy)

\* the departures of route "A" so far
DeparturesA == IF "A" \in DOMAIN schedules THEN schedules["A"] ELSE << >>

\* C6 as stated: in Scenario B every headway chosen is 8 minutes and the
\* output is 16 departures 8 minutes apart from 07:00 whose last one is 08:56.
C6_ScenarioB_AsStated ==
  ScenarioB =>
    /\ headway_min \in {None, Some(8)}
    /\ pc = "done" =>
         /\ Len(DeparturesA) = 16
         /\ \A k \in 1..16 : DeparturesA[k] = T(7, 0, 0) + (k - 1) * 8 * 60
         /\ DeparturesA[16] = T(8, 56, 0)

\* C6 (amended): in Scenario B the departures are 8 minutes apart from 07:00,
\* the output is the 16 departures 07:00, 07:08, ..., 09:00, and the only
\* headway that is not 8 minutes is the 15 minutes chosen at 09:00, whose
\* candidate 09:15 is left out.
C6_ScenarioB ==
  ScenarioB =>
    /\ \A k \in 1..Len(DeparturesA) : DeparturesA[k] = T(7, 0, 0) + (k - 1) * 8 * 60
    /\ headway_min \in {None, Some(8), Some(15)}
    /\ headway_min = Some(15) =>
         /\ DeparturesA[Len(DeparturesA)] = T(9, 0, 0)
         /\ current = T(9, 15, 0)
    /\ pc = "done" =>
         /\ Len(DeparturesA) = 16
         /\ DeparturesA[16] = T(9, 0, 0)
         /\ headway_min = Some(15)

C6_Witness ==
  /\ ScenarioB
  /\ pc = "done"
  /\ Len(DeparturesA) = 16

----
(* ThresholdHeadwayPolicy.get_headway_minutes called on its own *)

GeneratorIdle ==
  /\ routes = << >>
  /\ service_window = BigWindow
  /\ fixed_headway_min = None
  /\ demand_provider = None
  /\ headway_policy = None
  /\ dp = None
  /\ schedules = [r \in {} |-> << >>]
  /\ i = 0
  /\ dp_calls = 0
  /\ hp_calls = 0

PolicyObjects ==
  { DefaultPolicy,
    ThresholdHeadwayPolicy(Some(<< >>), 6, 60),
    ThresholdHeadwayPolicy(Some(<< <<50, 12>>, <<95, 4>> >>), 6, 60),
    ThresholdHeadwayPolicy(Some(<< <<0, 0>> >>), 0, 60),
    ThresholdHeadwayPolicy(Some(<< <<30, 20>>, <<85, 8>>, <<60, 90>> >>), 6, 60) }

\* the demand scores of [0, 1], in hundredths
Scores == 0..100

InitPolicy ==
  /\ GeneratorIdle
  /\ hp \in {Some(p) : p \in PolicyObjects}
  /\ pc = "policy"
  /\ demand = None
  /\ headway_min = None
  /\ round_to_minutes = None
  /\ current = 0
  /\ at = 0

\* lines 53-57: one call, on any score
CallPolicy ==
  /\ pc \in {"policy", "policy_returned", "policy_IndexError"}
  /\ \E score \in Scores :
       LET r == get_headway_minutes(Val(hp), score)
       IN /\ demand' = Some(score)
          /\ headway_min' = IF r.ok THEN Some(r.val) ELSE None
          /\ pc' = IF r.ok THEN "policy_returned" ELSE "policy_IndexError"
  /\ UNCHANGED <<inputs, dp, hp, schedules, i, current, dp_calls, hp_calls, at>>

NextPolicy == CallPolicy

SpecPolicy == InitPolicy /\ [][NextPolicy]_vars

\* C9: the default policy returns a headway within [min_headway, max_headway]
\* for every score of [0, 1].
C9_DefaultWithinRange ==
  (hp = Some(DefaultPolicy) /\ pc # "policy") =>
    /\ pc = "policy_returned"
    /\ Val(hp).min_headway <= Val(headway_min)
    /\ Val(headway_min) <= Val(hp).max_headway

C9_Witness ==
  /\ hp = Some(DefaultPolicy)
  /\ pc = "policy_returned"
  /\ demand = Some(85)
  /\ headway_min = Some(8)

\* no entry of the table has a threshold the score meets
NoMatch == \A k \in 1..Len(Val(hp).thresholds) : Val(demand) < Val(hp).thresholds[k][1]

\* the headways of the entries with the lowest threshold
LowestHeadways ==
  LET tbl == Val(hp).thresholds
  IN {tbl[k][2] : k \in {m \in 1..Len(tbl) : \A n \in 1..Len(tbl) : tbl[m][1] <= tbl[n][1]}}

\* C10: a scan that matches no entry does not fail, it returns the clamped
\* headway of the lowest-threshold entry; also on an empty table.
C10_FallbackNeverFails ==
  (pc # "policy" /\ NoMatch) =>
    /\ pc = "policy_returned"
    /\ \E hw \in LowestHeadways : Val(headway_min) = Clamp(Val(hp), hw)

----
(* _round_dt called on its own *)

RoundInputs ==
  {d * Day + T(h, m, s) : d \in {0, 1}, h \in {0, 1, 7, 23}, m \in 0..59, s \in {0, 30}}

RoundGranularities == {None, Some(-5), Some(0), Some(1), Some(5), Some(7), Some(15), Some(90)}

InitRound ==
  /\ GeneratorIdle
  /\ hp = None
  /\ demand = None
  /\ headway_min = None
  /\ at \in RoundInputs
  /\ round_to_minutes \in RoundGranularities
  /\ current = at
  /\ pc = "round"

\* current = _round_dt(at, round_to_minutes)
Round ==
  /\ pc = "round"
  /\ current' = _round_dt(at, round_to_minutes)
  /\ pc' = "rounded"
  /\ UNCHANGED <<inputs, dp, hp, schedules, i, demand, headway_min,
                 dp_calls, hp_calls, at>>

\* current = _round_dt(current, round_to_minutes), on an already rounded value
RoundAgain ==
  /\ pc = "rounded"
  /\ current' = _round_dt(current, round_to_minutes)
  /\ pc' = "rounded_twice"
  /\ UNCHANGED <<inputs, dp, hp, schedules, i, demand, headway_min,
                 dp_calls, hp_calls, at>>

NextRound == Round \/ RoundAgain

SpecRound == InitRound /\ [][NextRound]_vars

\* the greatest timestamp not later than dt, on the day of dt, whose
\* minutes since midnight are a multiple of g and whose seconds are zero
FloorToMultiple(dt, g) == DateOf(dt) * Day + (((TimeOf(dt) \div 60) \div g) * g) * 60

\* C7: for a granularity g > 1, _round_dt floors the timestamp to a
\* multiple of g minutes since midnight.
C7_RoundIsFloor ==
  (pc = "rounded" /\ ~IsNone(round_to_minutes) /\ Val(round_to_minutes) > 1) =>
    current = FloorToMultiple(at, Val(round_to_minutes))

----
(* Further properties of generate_daily_schedule *)

\* Scenario A of the specification
ScenarioA ==
  /\ routes = <<"A">>
  /\ service_window = BigWindow
  /\ fixed_headway_min = Some(30)
  /\ RoundingDisabled

\* C11: in Scenario A the output is the 33 timestamps 06:00 + 30k minutes,
\* k = 0..32: the window end 22:00 is the last one and 22:30 is left out.
C11_ScenarioA ==
  ScenarioA =>
    /\ Len(DeparturesA) <= 33
    /\ \A k \in 1..Len(DeparturesA) : DeparturesA[k] = T(6, 0, 0) + (k - 1) * 30 * 60
    /\ pc = "done" =>
         /\ Len(DeparturesA) = 33
         /\ DeparturesA[33] = T(22, 0, 0)

C11_Witness ==
  /\ ScenarioA
  /\ pc = "done"
  /\ Len(DeparturesA) = 33
  /\ current = T(22, 30, 0)

\* the mapping exists from line 100 on
MappingBuilt == pc \in {"for", "while", "done", "IndexError"}

\* C12: the mapping has one key per distinct name of the list and no other
\* key: as many keys as distinct names, not as many as entries.
C12_KeysAreDistinctNames ==
  MappingBuilt =>
    /\ DOMAIN schedules = {routes[k] : k \in 1..Len(routes)}
    /\ Cardinality(DOMAIN schedules) =
         Cardinality({k \in 1..Len(routes) : \A m \in 1..(k - 1) : routes[m] # routes[k]})

C12_Witness ==
  /\ pc = "done"
  /\ routes = <<"A", "B", "A">>
  /\ Cardinality(DOMAIN schedules) = 2

----
(* Further properties of _round_dt *)

\* C13: rounding an already rounded timestamp with the same granularity
\* leaves it as it is.
C13_RoundIdempotent == [][pc = "rounded" => current' = current]_vars

C13_Witness ==
  /\ pc = "rounded_twice"
  /\ ~IsNone(round_to_minutes)
  /\ Val(round_to_minutes) > 1
  /\ current # at

----
(* SimpleDemandByHour.get_demand_score called on its own *)

DemandObjects ==
  { SimpleDemandByHour(None, DefaultBase),
    CustomDemand,
    SimpleDemandByHour(Some([h \in {12} |-> 70]), 150),
    SimpleDemandByHour(Some([h \in {12} |-> 70]), -10) }

DemandTimes == {T(h, m, 0) : h \in 0..23, m \in {0, 30}}

InitDemand ==
  /\ routes = << >>
  /\ service_window = BigWindow
  /\ fixed_headway_min = None
  /\ round_to_minutes = None
  /\ demand_provider = None
  /\ headway_policy = None
  /\ dp \in {Some(e) : e \in DemandObjects}
  /\ hp = None
  /\ schedules = [r \in {} |-> << >>]
  /\ pc = "demand"
  /\ i = 0
  /\ current = 0
  /\ demand = None
  /\ headway_min = None
  /\ dp_calls = 0
  /\ hp_calls = 0
  /\ at = 0

\* lines 32-33: one call, at any time of the day
CallDemand ==
  /\ pc \in {"demand", "demand_returned"}
  /\ \E t \in DemandTimes :
       /\ at' = t
       /\ demand' = Some(get_demand_score(Val(dp), t))
  /\ pc' = "demand_returned"
  /\ UNCHANGED <<inputs, dp, hp, schedules, i, current, headway_min,
                 dp_calls, hp_calls>>

NextDemand == CallDemand

SpecDemand == InitDemand /\ [][NextDemand]_vars

\* the value the table holds for the hour of the call, or the base
RawScore ==
  IF HourOf(at) \in DOMAIN Val(dp).by_hour
  THEN Val(dp).by_hour[HourOf(at)] ELSE Val(dp).base

\* C14: the score returned lies in [0, 1]: a raw value below 0 gives 0, one
\* above 1 gives 1, any other is returned as it is; the raw value of an hour
\* absent from the table is the base.
C14_ScoreClamped ==
  pc = "demand_returned" =>
    /\ 0 <= Val(demand) /\ Val(demand) <= 100
    /\ RawScore < 0 => Val(demand) = 0
    /\ RawScore > 100 => Val(demand) = 100
    /\ (0 <= RawScore /\ RawScore <= 100) => Val(demand) = RawScore

C14_Witness ==
  /\ pc = "demand_returned"
  /\ HourOf(at) \notin DOMAIN Val(dp).by_hour
  /\ Val(dp).base = 150
  /\ demand = Some(100)

----
(* Calls of the estimator and of the policy *)

\* the number of departures appended so far, over all routes
TotalDepartures ==
  LET n(r) == IF r \in DOMAIN schedules THEN Len(schedules[r]) ELSE 0
  IN n("A") + n("B")

\* C15: with a fixed headway (any value but None, 0 included) neither the
\* estimator nor the policy is ever called; without one, every iteration
\* calls the estimator once at the timestamp it appended and then the policy
\* once with the score obtained, and no other step calls them.
C15_Calls ==
  /\ [](fixed_headway_min # None => (dp_calls = 0 /\ hp_calls = 0 /\ demand = None))
  /\ [](fixed_headway_min = None => (dp_calls = TotalDepartures /\ hp_calls = TotalDepartures))
  /\ [][(fixed_headway_min = None /\ TotalDepartures' = TotalDepartures + 1) =>
          /\ dp_calls' = dp_calls + 1
          /\ hp_calls' = hp_calls + 1
          /\ demand' = Some(get_demand_score(Val(dp), current))
          /\ pc' = "while" =>
               headway_min' = Some(get_headway_minutes(Val(hp), Val(demand')).val)]_vars

C15_Witness ==
  /\ fixed_headway_min = Some(0)
  /\ pc = "while"
  /\ TotalDepartures >= 2
  /\ dp_calls = 0
  /\ hp_calls = 0

----
(* Selection of the entry by get_headway_minutes *)

\* the entries of the table whose threshold the score meets
MatchingEntries ==
  {e \in Range(Val(hp).thresholds) : e[1] <= Val(demand)}

\* among them, those with the greatest threshold
BestEntries == {e \in MatchingEntries : \A f \in MatchingEntries : f[1] <= e[1]}

\* hw brought into [min_headway, max_headway]
Clamped(hw) ==
  IF hw < Val(hp).min_headway THEN Val(hp).min_headway
  ELSE IF hw > Val(hp).max_headway THEN Val(hp).max_headway
  ELSE hw

\* C16: whatever the order the table was given in, the call returns the
\* clamped headway of the entry with the greatest threshold <= the score, a
\* score equal to a threshold selecting that threshold's entry; the default
\* table gives 8, 10, 15, 20, 30 at 0.85, 0.70, 0.50, 0.30, 0.00.
C16_GreatestThresholdMet ==
  /\ (pc # "policy" /\ MatchingEntries # {}) =>
       /\ pc = "policy_returned"
       /\ \E e \in BestEntries : Val(headway_min) = Clamped(e[2])
  /\ (pc # "policy" /\ hp = Some(DefaultPolicy)) =>
       /\ demand = Some(85) => headway_min = Some(8)
       /\ demand = Some(70) => headway_min = Some(10)
       /\ demand = Some(50) => headway_min = Some(15)
       /\ demand = Some(30) => headway_min = Some(20)
       /\ demand = Some(0) => headway_min = Some(30)

C16_Witness ==
  /\ hp = Some(ThresholdHeadwayPolicy(Some(<< <<30, 20>>, <<85, 8>>, <<60, 90>> >>), 6, 60))
  /\ pc = "policy_returned"
  /\ demand = Some(60)
  /\ headway_min = Some(60)

----
(* The first departure and the date of the departures *)

\* the window start on service_day, less its seconds and the remainder of
\* its minute by the granularity when the granularity is > 1
FlooredStart ==
  LET s == service_window.start
  IN IF ~IsNone(round_to_minutes) /\ Val(round_to_minutes) > 1
     THEN s - ((((s \div 60) % 60) % Val(round_to_minutes)) * 60 + (s % 60))
     ELSE s

C18_AllOnServiceDay ==
  \A r \in DOMAIN schedules :
    \A k \in 1..Len(schedules[r]) : DateOf(schedules[r][k]) = 0

====
